---- MODULE Spec2Model ----
(***************************************************************************)
(* Airlines_EDA.py: main() is a straight-line pipeline over one mutable    *)
(* table df: read_csv, drop the 'index' column, map 'stops', drop          *)
(* duplicates, derive price_per_hour and route, print a report, render     *)
(* eleven charts, write the cleaned CSV.  An uncaught exception at any     *)
(* statement ends the run.  The script may be invoked again on the same    *)
(* input file; the output file of the previous invocation is still on      *)
(* disk then.                                                              *)
(*                                                                         *)
(* Cells are tagged tuples so that a column can change type:               *)
(*   <<"str", s>>      a string                                            *)
(*   <<"num", n, d>>   the finite number n/d (d > 0, lowest terms)         *)
(*   <<"inf", s>>      +infinity (s = 1) or -infinity (s = -1)             *)
(*   <<"nan">>         the missing-value marker (NaN)                      *)
(* A quotient is kept exact; the rounding of float64 is not modelled.      *)
(*                                                                         *)
(* State:                                                                  *)
(*   inputFile  content of airlines_flights_data.csv (never written)       *)
(*   outFile    content of cleaned_airlines_data.csv, or Absent            *)
(*   df         the table                                                  *)
(*   pc         position in main(): the last statement group completed,    *)
(*              "done" after the last print, "aborted" after an exception  *)
(*   colIdx     position of the count-plot loop in categorical_cols        *)
(*   log        the statement groups completed in this run, in order       *)
(*   removed    the number printed by "Removed N duplicate rows"           *)
(*   shape      the last df.shape printed                                  *)
(*   err        the exception that ended the run, "none" otherwise         *)
(*   run        the number of the current invocation                       *)
(*   written    the files written by to_csv, one per run that reached it   *)
(*                                                                         *)
(* The input file exists, is well-formed and has at least one data line.   *)
(* Of the charts, the histogram grid is the one that raises on the values  *)
(* the table can hold here (a non-finite range); the others only read df.  *)
(***************************************************************************)
EXTENDS Integers, Sequences, FiniteSets, TLC

VARIABLES inputFile, outFile, df, pc, colIdx, log, removed, shape, err, run, written

vars == <<inputFile, outFile, df, pc, colIdx, log, removed, shape, err, run, written>>

\* ------------------------------------------------------------------ bounds
MaxRows == 3
MaxRuns == 2

\* ------------------------------------------------------------------ cells
Str(s) == <<"str", s>>
Num(n) == <<"num", n, 1>>
Inf(s) == <<"inf", s>>
NaN == <<"nan">>

IsNaN(v) == v[1] = "nan"
IsNum(v) == v[1] = "num"
IsInf(v) == v[1] = "inf"
IsStr(v) == v[1] = "str"

Abs(n) == IF n < 0 THEN -n ELSE n
Sign(n) == IF n < 0 THEN -1 ELSE IF n = 0 THEN 0 ELSE 1

RECURSIVE Gcd(_, _)
Gcd(a, b) == IF b = 0 THEN a ELSE Gcd(b, a % b)

\* The number n/d (d # 0) in lowest terms with a positive denominator.
Frac(n, d) ==
    LET g == Gcd(Abs(n), Abs(d))
    IN  <<"num", (Sign(d) * n) \div g, Abs(d) \div g>>

\* ------------------------------------------------------------------ tables
\* A table is [columns : Seq(name), rows : Seq([label, cells])]; cells is a
\* function from the column names to cells, label the row's index label.
ColSet(cols) == {cols[i] : i \in DOMAIN cols}

HasColumn(t, c) == c \in ColSet(t.columns)

\* Selection by a boolean mask: the elements at the positions in K, in order.
Select(s, K) ==
    LET F[i \in 0..Len(s)] ==
            IF i = 0 THEN <<>>
            ELSE IF i \in K THEN Append(F[i - 1], s[i]) ELSE F[i - 1]
    IN  F[Len(s)]

\* pd.read_csv: one row per data line, header order kept, RangeIndex labels.
ReadCsv(file) ==
    [columns |-> file.columns,
     rows    |-> [i \in 1..Len(file.rows) |->
                    [label |-> i - 1, cells |-> file.rows[i]]]]

\* DataFrame.drop(columns=cols) with the default errors='raise': a KeyError
\* when a named column is absent.
\* (Variant with errors='ignore': an absent column is skipped silently.)
DropIgnoresMissing(t, cols) == FALSE

DropRaises(t, cols) == \E c \in cols : ~HasColumn(t, c)

DropColumns(t, cols) ==
    LET kept == Select(t.columns, {i \in DOMAIN t.columns : t.columns[i] \notin cols})
    IN  [columns |-> kept,
         rows    |-> [i \in 1..Len(t.rows) |->
                        [label |-> t.rows[i].label,
                         cells |-> [c \in ColSet(kept) |-> t.rows[i].cells[c]]]]]

\* A Series: the cells of one column, keyed by row label.
Labels(t) == {t.rows[i].label : i \in DOMAIN t.rows}

RowAt(t, l) == t.rows[CHOOSE i \in DOMAIN t.rows : t.rows[i].label = l]

Column(t, c) == [l \in Labels(t) |-> RowAt(t, l).cells[c]]

\* df[c] = s: the Series is aligned on the table's row labels; a new column
\* is appended after the existing ones, an existing one is replaced in place.
SetColumn(t, c, s) ==
    LET cols == IF HasColumn(t, c) THEN t.columns ELSE Append(t.columns, c)
    IN  [columns |-> cols,
         rows    |-> [i \in 1..Len(t.rows) |->
                        [label |-> t.rows[i].label,
                         cells |-> [k \in ColSet(cols) |->
                                      IF k = c
                                      THEN IF t.rows[i].label \in DOMAIN s
                                           THEN s[t.rows[i].label] ELSE NaN
                                      ELSE t.rows[i].cells[k]]]]]

\* Series.map({'zero': 0, 'one': 1, 'two_or_more': 2}): a value that is no key
\* of the dict becomes NaN.
\* (Variant in the manner of Series.replace: a value that is no key is kept.)
StopsMapKeepsUnknown(v) ==
    IF v = Str("zero") THEN Num(0)
    ELSE IF v = Str("one") THEN Num(1)
    ELSE IF v = Str("two_or_more") THEN Num(2)
    ELSE v

StopsMap(v) ==
    IF v = Str("zero") THEN Num(0)
    ELSE IF v = Str("one") THEN Num(1)
    ELSE IF v = Str("two_or_more") THEN Num(2)
    ELSE NaN

\* df['stops'].map({...})
StopsSeries(t) == [l \in Labels(t) |-> StopsMap(Column(t, "stops")[l])]

\* DataFrame.duplicated(keep='first'): a row is a duplicate when an earlier
\* row has the same cells in every column (missing values compare equal).
Duplicated(t, i) == \E j \in 1..(i - 1) : t.rows[j].cells = t.rows[i].cells

\* (Variants: keep='last', and a comparison with the previous row only.)
DuplicatedKeepLast(t, i) ==
    \E j \in (i + 1)..Len(t.rows) : t.rows[j].cells = t.rows[i].cells

DuplicatedAdjacent(t, i) == i > 1 /\ t.rows[i - 1].cells = t.rows[i].cells

\* DataFrame.drop_duplicates(inplace=True): the rows not flagged, in order,
\* with their labels.
DropDuplicatesKeepLast(t) ==
    [columns |-> t.columns,
     rows    |-> Select(t.rows, {i \in DOMAIN t.rows : ~DuplicatedKeepLast(t, i)})]

DropDuplicatesAdjacent(t) ==
    [columns |-> t.columns,
     rows    |-> Select(t.rows, {i \in DOMAIN t.rows : ~DuplicatedAdjacent(t, i)})]

DropDuplicates(t) ==
    [columns |-> t.columns,
     rows    |-> Select(t.rows, {i \in DOMAIN t.rows : ~Duplicated(t, i)})]

\* Series / Series on float64: x/0 is +-inf for x # 0, 0/0 is NaN, and a
\* missing operand gives a missing result; no exception is raised.
Divide(a, b) ==
    IF IsNaN(a) \/ IsNaN(b) THEN NaN
    ELSE IF IsInf(a) /\ IsInf(b) THEN NaN
    ELSE IF IsInf(a) THEN Inf(a[2] * (IF b[2] < 0 THEN -1 ELSE 1))
    ELSE IF IsInf(b) THEN Num(0)
    ELSE IF b[2] = 0
         THEN IF a[2] = 0 THEN NaN ELSE Inf(Sign(a[2]))
         ELSE Frac(a[2] * b[3], a[3] * b[2])

\* Series + str and Series + Series on object columns: string concatenation,
\* missing where an operand is missing.
\* (Variant with the operands exchanged.)
ConcatSwapped(a, b) ==
    IF IsNaN(a) \/ IsNaN(b) THEN NaN ELSE Str(b[2] \o a[2])

Concat(a, b) ==
    IF IsNaN(a) \/ IsNaN(b) THEN NaN ELSE Str(a[2] \o b[2])

\* Series + scalar: element by element, labels kept.
AddScalar(a, v) == [l \in DOMAIN a |-> Concat(a[l], v)]

\* Series + Series and Series / Series: aligned on the labels, missing where
\* a label is on one side only.
AddSeries(a, b) ==
    [l \in (DOMAIN a) \cup (DOMAIN b) |->
        IF l \in DOMAIN a /\ l \in DOMAIN b THEN Concat(a[l], b[l]) ELSE NaN]

DivSeries(a, b) ==
    [l \in (DOMAIN a) \cup (DOMAIN b) |->
        IF l \in DOMAIN a /\ l \in DOMAIN b THEN Divide(a[l], b[l]) ELSE NaN]

\* df['source_city'] + " to " + df['destination_city']
RouteSeries(t) ==
    AddSeries(AddScalar(Column(t, "source_city"), Str(" to ")),
              Column(t, "destination_city"))

\* df['price'] / df['duration']
PricePerHourSeries(t) == DivSeries(Column(t, "price"), Column(t, "duration"))

\* DataFrame.hist over the given columns: each column's non-missing values go
\* to numpy's histogram, which raises ValueError when their range is not
\* finite (a +-inf value).
HistRaises(t, cols) ==
    \E c \in cols : \E i \in DOMAIN t.rows : IsInf(t.rows[i].cells[c])

\* DataFrame.to_csv(path, index=False): the header, then one line per row in
\* table order; the row labels are not written and a missing value is written
\* as an empty field.
Absent == [exists |-> FALSE, columns |-> <<>>, rows |-> <<>>]

ToCsv(t) ==
    [exists  |-> TRUE,
     columns |-> t.columns,
     rows    |-> [i \in 1..Len(t.rows) |->
                    [c \in ColSet(t.columns) |->
                        IF IsNaN(t.rows[i].cells[c]) THEN Str("")
                        ELSE t.rows[i].cells[c]]]]

\* The file on disk after a write: to_csv opens the path with mode 'w', so
\* the old content is discarded.
\* (Variant with mode 'a': the new lines follow the old content.)
WriteFileAppend(old, new) ==
    IF old.exists
    THEN [exists |-> TRUE, columns |-> old.columns, rows |-> old.rows \o new.rows]
    ELSE new

WriteFile(old, new) == new

\* ------------------------------------------------------------------ inputs
FullHeader ==
    <<"index", "airline", "source_city", "departure_time", "stops",
      "arrival_time", "destination_city", "class", "duration", "days_left",
      "price">>

NoIndexHeader == Select(FullHeader, {i \in DOMAIN FullHeader : FullHeader[i] # "index"})

InputRow(idx, stops, price, duration) ==
    [c \in ColSet(FullHeader) |->
        CASE c = "index" -> Num(idx)
          [] c = "airline" -> Str("Vistara")
          [] c = "source_city" -> Str("Delhi")
          [] c = "departure_time" -> Str("Morning")
          [] c = "stops" -> Str(stops)
          [] c = "arrival_time" -> Str("Night")
          [] c = "destination_city" -> Str("Mumbai")
          [] c = "class" -> Str("Economy")
          [] c = "duration" -> Num(duration)
          [] c = "days_left" -> Num(1)
          [] c = "price" -> Num(price)]

\* The rows an input file is made of: every stops category, two values that
\* are no category, rows that differ in the index only, and zero durations
\* with a zero and a non-zero price.
InputRows ==
    {InputRow(idx, st, 5, 2) : idx \in {0, 1}, st \in {"zero", "three", "unknown"}}
    \cup {InputRow(0, st, 5, 2) : st \in {"one", "two_or_more"}}
    \cup {InputRow(0, "two_or_more", p, 0) : p \in {0, 5}}

Project(row, header) == [c \in ColSet(header) |-> row[c]]

InputTables == UNION {[1..n -> InputRows] : n \in 1..MaxRows}

InputFiles ==
    {[columns |-> h, rows |-> [i \in DOMAIN rs |-> Project(rs[i], h)]] :
        h \in {FullHeader, NoIndexHeader}, rs \in InputTables}

\* ------------------------------------------------------------------ state
EmptyTable == [columns |-> <<>>, rows |-> <<>>]

categorical_cols ==
    <<"airline", "source_city", "destination_city", "departure_time",
      "arrival_time", "class">>

numeric_cols == {"duration", "days_left", "price", "price_per_hour"}

Shape(t) == <<Len(t.rows), Len(t.columns)>>

Init ==
    /\ inputFile \in InputFiles
    /\ outFile = Absent
    /\ df = EmptyTable
    /\ pc = "start"
    /\ colIdx = 0
    /\ log = <<>>
    /\ removed = 0
    /\ shape = <<0, 0>>
    /\ err = "none"
    /\ run = 1
    /\ written = <<>>

\* A statement that completes: the next position, and the stage in the log.
Step(to, stage) ==
    /\ pc' = to
    /\ log' = Append(log, stage)
    /\ UNCHANGED <<inputFile, run>>

\* An uncaught exception: the interpreter prints the traceback and exits.
Raise(e) ==
    /\ pc' = "aborted"
    /\ err' = e
    /\ UNCHANGED <<inputFile, outFile, df, colIdx, log, removed, shape, run, written>>

\* ------------------------------------------------------------------ Loader
Load ==
    /\ pc = "start"
    /\ df' = ReadCsv(inputFile)
    /\ shape' = Shape(df')
    /\ Step("loaded", "load")
    /\ UNCHANGED <<outFile, colIdx, removed, err, written>>

\* ------------------------------------------------------------------ Cleaner
DropIndex ==
    /\ pc = "loaded"
    /\ ~DropRaises(df, {"index"})
    /\ df' = DropColumns(df, {"index"})
    /\ Step("dropped", "drop_index")
    /\ UNCHANGED <<outFile, colIdx, removed, shape, err, written>>

DropIndexKeyError ==
    /\ pc = "loaded"
    /\ DropRaises(df, {"index"})
    /\ Raise("KeyError")

MapStops ==
    /\ pc = "dropped"
    /\ df' = SetColumn(df, "stops", StopsSeries(df))
    /\ Step("mapped", "map_stops")
    /\ UNCHANGED <<outFile, colIdx, removed, shape, err, written>>

DropDuplicateRows ==
    /\ pc = "mapped"
    /\ df' = DropDuplicates(df)
    /\ removed' = Len(df.rows) - Len(df'.rows)
    /\ Step("deduped", "drop_duplicates")
    /\ UNCHANGED <<outFile, colIdx, shape, err, written>>

\* ------------------------------------------------------------------ Feature Deriver
DerivePricePerHour ==
    /\ pc = "deduped"
    /\ df' = SetColumn(df, "price_per_hour", PricePerHourSeries(df))
    /\ Step("pph", "price_per_hour")
    /\ UNCHANGED <<outFile, colIdx, removed, shape, err, written>>

DeriveRoute ==
    /\ pc = "pph"
    /\ df' = SetColumn(df, "route", RouteSeries(df))
    /\ Step("derived", "route")
    /\ UNCHANGED <<outFile, colIdx, removed, shape, err, written>>

\* ------------------------------------------------------------------ Reporter
Report ==
    /\ pc = "derived"
    /\ shape' = Shape(df)
    /\ Step("reported", "report")
    /\ UNCHANGED <<outFile, df, colIdx, removed, err, written>>

\* ------------------------------------------------------------------ Visualizer
Histograms ==
    /\ pc = "reported"
    /\ ~HistRaises(df, numeric_cols)
    /\ colIdx' = 1
    /\ Step("countplots", "histograms")
    /\ UNCHANGED <<outFile, df, removed, shape, err, written>>

HistogramsValueError ==
    /\ pc = "reported"
    /\ HistRaises(df, numeric_cols)
    /\ Raise("ValueError")

CountPlot ==
    /\ pc = "countplots"
    /\ colIdx <= Len(categorical_cols)
    /\ colIdx' = colIdx + 1
    /\ Step("countplots", "countplot_" \o categorical_cols[colIdx])
    /\ UNCHANGED <<outFile, df, removed, shape, err, written>>

Heatmap ==
    /\ pc = "countplots"
    /\ colIdx > Len(categorical_cols)
    /\ Step("heatmap", "heatmap")
    /\ UNCHANGED <<outFile, df, colIdx, removed, shape, err, written>>

BoxplotAirline ==
    /\ pc = "heatmap"
    /\ Step("box_airline", "boxplot_airline")
    /\ UNCHANGED <<outFile, df, colIdx, removed, shape, err, written>>

BoxplotClass ==
    /\ pc = "box_airline"
    /\ Step("box_class", "boxplot_class")
    /\ UNCHANGED <<outFile, df, colIdx, removed, shape, err, written>>

OutlierBoxplots ==
    /\ pc = "box_class"
    /\ Step("outliers", "outlier_boxplots")
    /\ UNCHANGED <<outFile, df, colIdx, removed, shape, err, written>>

\* ------------------------------------------------------------------ Writer
\* (Variant: the write placed before the charts.)
WriteEarly ==
    /\ pc = "reported"
    /\ outFile' = WriteFile(outFile, ToCsv(df))
    /\ written' = Append(written, outFile')
    /\ shape' = Shape(df)
    /\ Step("done", "write")
    /\ UNCHANGED <<df, colIdx, removed, err>>

Write ==
    /\ pc = "outliers"
    /\ outFile' = WriteFile(outFile, ToCsv(df))
    /\ written' = Append(written, outFile')
    /\ shape' = Shape(df)
    /\ Step("done", "write")
    /\ UNCHANGED <<df, colIdx, removed, err>>

\* ------------------------------------------------------------------ invocation
\* The script is run again on the same input; the process starts afresh and
\* only the files on disk remain.
Rerun ==
    /\ pc \in {"done", "aborted"}
    /\ run < MaxRuns
    /\ run' = run + 1
    /\ pc' = "start"
    /\ df' = EmptyTable
    /\ colIdx' = 0
    /\ log' = <<>>
    /\ removed' = 0
    /\ shape' = <<0, 0>>
    /\ err' = "none"
    /\ UNCHANGED <<inputFile, outFile, written>>

Next ==
    \/ Load
    \/ DropIndex
    \/ DropIndexKeyError
    \/ MapStops
    \/ DropDuplicateRows
    \/ DerivePricePerHour
    \/ DeriveRoute
    \/ Report
    \/ Histograms
    \/ HistogramsValueError
    \/ CountPlot
    \/ Heatmap
    \/ BoxplotAirline
    \/ BoxplotClass
    \/ OutlierBoxplots
    \/ Write
    \/ Rerun

Spec == Init /\ [][Next]_vars

\* ------------------------------------------------------------------ properties
InLog(stage) == \E i \in DOMAIN log : log[i] = stage

HasIndexColumn == \E i \in DOMAIN inputFile.columns : inputFile.columns[i] = "index"

NoEqualRows(rows) ==
    \A i, j \in DOMAIN rows : i # j => rows[i] # rows[j]

CellRows(t) == [i \in DOMAIN t.rows |-> t.rows[i].cells]

\* The input line a table row was read from.
Origin(r) == inputFile.rows[r.label + 1]

Categories == {Str("zero"), Str("one"), Str("two_or_more")}

\* C1: once drop_duplicates has run, no two distinct rows of the table are
\* equal in every column, also after price_per_hour and route are added, and
\* no two lines of the written CSV are equal.
C1_NoDuplicateRows ==
    /\ InLog("drop_duplicates") => NoEqualRows(CellRows(df))
    /\ outFile.exists => NoEqualRows(outFile.rows)

C1_Witness ==
    /\ pc = "done"
    /\ removed > 0
    /\ Len(outFile.rows) >= 2

\* C2: once stops is mapped, every row's stops is 0, 1, 2 or missing: 0 for
\* 'zero', 1 for 'one', 2 for 'two_or_more', missing for any other input
\* value, and never a string.
C2_StopsMapped ==
    InLog("map_stops") =>
        \A i \in DOMAIN df.rows :
            LET r == df.rows[i]
                v == r.cells["stops"]
                o == Origin(r)["stops"]
            IN  /\ v \in {Num(0), Num(1), Num(2), NaN}
                /\ ~IsStr(v)
                /\ o = Str("zero") => v = Num(0)
                /\ o = Str("one") => v = Num(1)
                /\ o = Str("two_or_more") => v = Num(2)
                /\ o \notin Categories => v = NaN

C2_Witness ==
    /\ pc = "done"
    /\ \E i \in DOMAIN df.rows : df.rows[i].cells["stops"] = NaN
    /\ \E i \in DOMAIN df.rows : df.rows[i].cells["stops"] = Num(2)
    /\ \E i \in DOMAIN df.rows : df.rows[i].cells["stops"] = Num(1)

\* C3: in the table with price_per_hour, price_per_hour is missing where
\* duration = 0 and equals price / duration elsewhere.
C3_PricePerHour ==
    HasColumn(df, "price_per_hour") =>
        \A i \in DOMAIN df.rows :
            LET p == df.rows[i].cells["price"]
                d == df.rows[i].cells["duration"]
                q == df.rows[i].cells["price_per_hour"]
            IN  IF d = Num(0) THEN q = NaN
                ELSE /\ IsNum(q)
                     /\ q[2] * d[2] * p[3] = p[2] * q[3] * d[3]

\* C4: in the table with route, every row's route is its own source_city,
\* then " to ", then its own destination_city.
C4_Route ==
    HasColumn(df, "route") =>
        \A i \in DOMAIN df.rows :
            LET r == df.rows[i].cells
            IN  r["route"] = Str(r["source_city"][2] \o " to " \o r["destination_city"][2])

C4_Witness ==
    /\ pc = "done"
    /\ \E i \in DOMAIN df.rows : df.rows[i].cells["route"] = Str("Delhi to Mumbai")

\* C5: when the input has no 'index' column the drop raises: the run stops
\* at the drop with a KeyError, nothing after the load has run, and no output
\* file exists.
C5_MissingIndexAborts ==
    ~HasIndexColumn =>
        /\ pc \in {"start", "loaded", "aborted"}
        /\ log \in {<<>>, <<"load">>}
        /\ pc = "loaded" => (ENABLED DropIndexKeyError) /\ ~(ENABLED DropIndex)
        /\ pc = "aborted" => err = "KeyError"
        /\ ~outFile.exists
        /\ written = <<>>

C5_Witness ==
    /\ ~HasIndexColumn
    /\ pc = "aborted"
    /\ err = "KeyError"
    /\ run = MaxRuns
    /\ Len(inputFile.rows) > 0

AnomalousInput ==
    \E i \in DOMAIN inputFile.rows :
        \/ inputFile.rows[i]["stops"] \notin Categories
        \/ inputFile.rows[i]["duration"] = Num(0)

\* C6: an input with the expected columns that holds an unrecognised stops
\* value or a zero duration never aborts the run.
C6_AnomaliesNeverAbort ==
    (HasIndexColumn /\ AnomalousInput) => pc # "aborted"

SameButIndex(a, b) == \A c \in (DOMAIN a) \ {"index"} : a[c] = b[c]

Scenario(i, j, k) ==
    /\ {i, j, k} = 1..3
    /\ i # j
    /\ inputFile.rows[i] = inputFile.rows[j]
    /\ inputFile.rows[i]["stops"] = Str("two_or_more")
    /\ inputFile.rows[i]["duration"] = Num(0)
    /\ ~SameButIndex(inputFile.rows[k], inputFile.rows[i])

\* C7: three input rows, two of them equal in every column with
\* stops = 'two_or_more' and duration = 0, the third different in a column
\* other than index: the run ends with a written file of 2 lines in which
\* the surviving copy has stops = 2 and a missing price_per_hour.
C7_EndToEnd ==
    (HasIndexColumn /\ Len(inputFile.rows) = 3 /\ pc \in {"done", "aborted"}) =>
        \A i, j, k \in 1..3 :
            Scenario(i, j, k) =>
                /\ pc = "done"
                /\ Len(outFile.rows) = 2
                /\ \E n \in 1..2 :
                    /\ SameButIndex(Origin(df.rows[n]), inputFile.rows[i])
                    /\ outFile.rows[n]["stops"] = Num(2)
                    /\ outFile.rows[n]["price_per_hour"] = Str("")

\* C8: every run on the same input writes the same file, whatever the
\* previous run left on disk.
C8_RerunSameOutput ==
    /\ \A i, j \in DOMAIN written : written[i] = written[j]
    /\ written # <<>> => outFile = written[Len(written)]

C8_Witness ==
    /\ Len(written) = MaxRuns
    /\ Len(written[1].rows) >= 2

StageOrder ==
    <<"load", "drop_index", "map_stops", "drop_duplicates", "price_per_hour",
      "route", "report", "histograms", "countplot_airline",
      "countplot_source_city", "countplot_destination_city",
      "countplot_departure_time", "countplot_arrival_time", "countplot_class",
      "heatmap", "boxplot_airline", "boxplot_class", "outlier_boxplots", "write">>

\* C9: the stages of a run are a prefix of the fixed order load, clean,
\* derive, report, the eleven charts, write, so each runs at most once and
\* after its predecessor, and a run that has not passed every chart has
\* written no file.
C9_StageOrder ==
    /\ Len(log) <= Len(StageOrder)
    /\ \A i \in DOMAIN log : log[i] = StageOrder[i]
    /\ Len(written) <= run
    /\ ~InLog("write") => Len(written) < run
    /\ pc = "done" <=> InLog("write")

C9_Witness ==
    /\ pc = "done"
    /\ log = StageOrder
    /\ run = MaxRuns

Collapse(a, b) ==
    /\ \A c \in (DOMAIN a) \ {"index", "stops"} : a[c] = b[c]
    /\ \/ a["stops"] = b["stops"]
       \/ (a["stops"] \notin Categories /\ b["stops"] \notin Categories)

FirstOccurrences ==
    {i - 1 : i \in {k \in DOMAIN inputFile.rows :
                      \A j \in 1..(k - 1) : ~Collapse(inputFile.rows[j], inputFile.rows[k])}}

\* C10: drop_duplicates compares the rows without index and with stops
\* mapped, keeps the first of each group of equal rows in input order, and
\* the reported count is the input row count minus the output row count.
C10_KeepFirst ==
    InLog("drop_duplicates") =>
        /\ \A i, j \in DOMAIN df.rows : i < j => df.rows[i].label < df.rows[j].label
        /\ {df.rows[i].label : i \in DOMAIN df.rows} = FirstOccurrences
        /\ \A i \in DOMAIN df.rows :
              \A c \in (DOMAIN Origin(df.rows[i])) \ {"index", "stops"} :
                  df.rows[i].cells[c] = Origin(df.rows[i])[c]
        /\ removed = Len(inputFile.rows) - Len(df.rows)

C10_Witness ==
    /\ pc = "deduped"
    /\ Len(inputFile.rows) = 3
    /\ inputFile.rows[1]["stops"] = Str("three")
    /\ inputFile.rows[2]["stops"] = Str("unknown")
    /\ inputFile.rows[3]["index"] # inputFile.rows[1]["index"]
    /\ removed = 2
    /\ Len(df.rows) = 1

====
